---- MODULE Spec2Model ----
(***************************************************************************)
(* Model of build_blogs.py: the script that, for every connector of the    *)
(* static catalog, asks the language model for a configuration snippet     *)
(* and five chapters, assembles the blog post, writes it to ./blogs and    *)
(* uploads it to the Webflow CMS.                                          *)
(*                                                                         *)
(* Text is modelled as a sequence of string tokens, so that concatenation  *)
(* is \o and a substring is a SubSeq.  The configuration returned by the   *)
(* model is a sequence of single characters, because Python's str.replace  *)
(* works on characters.                                                    *)
(***************************************************************************)
EXTENDS Integers, Sequences, FiniteSets, TLC

VARIABLES
  env,                  \* which secrets the environment holds (os.getenv)
  pc,                   \* position of the script
  i,                    \* index in sources of the connector being processed
  k,                    \* chapter prompts consumed by the loop of build_blog_post
  config,               \* create_code_example: the configuration text
  chapter_prompts,      \* __main__: OrderedDict, a sequence of <<key, prompt>>
  conversation_history, \* __main__: list of role/content messages
  blog_chapters,        \* __main__: dict chapter key -> text
  blog_post,            \* __main__: the assembled post
  lastRequest,          \* messages of the latest request to the model API
  response,             \* latest response of the CMS: status_code and text
  files,                \* paths written under ./blogs
  stdout,               \* lines printed
  trace                 \* external calls made so far, in order

vars == <<env, pc, i, k, config, chapter_prompts, conversation_history,
          blog_chapters, blog_post, lastRequest, response, files, stdout, trace>>

----------------------------------------------------------------------------
(* Bounds and input sets *)

NumSources == 3
MaxPieces == 3

\* display name and canonical identifier of the catalog entries
SourceNames == <<"Alpha", "Beta", "Gamma", "Delta", "Epsilon">>
FormattedNames == <<"source-alpha", "source-beta", "source-gamma",
                    "source-delta", "source-epsilon">>

sources == [n \in 1..NumSources |->
              [original |-> SourceNames[n], formatted |-> FormattedNames[n]]]

\* texts the model API may return for a chapter
Texts == {<<"a">>, <<"b", "c">>}

\* status codes and bodies the CMS may answer with
StatusCodes == {200, 201, 202, 204, 401, 500}
Bodies == {"body1"}

JSON == <<"j", "s", "o", "n">>
\* the backquote character (the parser does not accept it inside a string)
BQ == "BQ"
FENCE == <<BQ, BQ, BQ>>

\* contents the model API may return for the configuration in a full run
SnippetResponses == { <<"{", "}">>, FENCE \o JSON \o <<"{", "}">> \o FENCE }

\* building blocks of the responses the stripping is exercised on
Pieces == { JSON, FENCE, <<"j", "s">>, <<"o", "n">>, <<BQ>>, <<"{", "}">> }

RECURSIVE PieceStrings(_)
PieceStrings(n) ==
  IF n = 0 THEN {<<>>}
  ELSE LET P == PieceStrings(n - 1) IN P \cup {p \o q : p \in P, q \in Pieces}

RawResponses == PieceStrings(MaxPieces)

----------------------------------------------------------------------------
(* Pure helpers *)

\* Python str.replace(old, empty): leftmost non-overlapping occurrences, one pass
RECURSIVE Replace(_, _)
Replace(s, old) ==
  IF Len(s) < Len(old) THEN s
  ELSE IF SubSeq(s, 1, Len(old)) = old
       THEN Replace(SubSeq(s, Len(old) + 1, Len(s)), old)
       ELSE <<s[1]>> \o Replace(Tail(s), old)

StripFences(content) == Replace(Replace(content, JSON), FENCE)

Message(role, content) == [role |-> role, content |-> content]

SnippetSystem == <<"You are a helpful assistant.">>
ChapterSystem == <<"You are a helpful assistant. Use clear, precise language, and limit pompous words. Use a natural tone. Prioritize substance">>

\* create_code_example: the request sent for the configuration
SnippetMessages(connector) ==
  << Message("system", SnippetSystem),
     Message("user", <<"Generate an example configuration based on the following JSON spec.",
                       "config_spec of", connector>>) >>

\* create_code_example: the snippet built around the stripped configuration
Snippet(connector, cfg) ==
  <<"pip install airbyte", "ab.get_source(", connector, "config=">> \o cfg
  \o <<"source.check()", "source.get_available_streams()",
       "source.select_all_streams()", "source.read(cache)", "to_pandas()">>

\* variant of ChapterPrompts: the introduction is asked for first
ChapterPrompts_IntroductionFirst(source, snippet) ==
  << <<"introduction", <<"Let's write a very short introduction">> >>,
     <<"chapter_1", <<"Title: Traditional Methods for Creating", source.original>> >>,
     <<"chapter_2", <<"Title: Implementing a Python Data Pipeline for", source.original>>
                    \o snippet >>,
     <<"chapter_3", <<"Title: Why Using PyAirbyte for", source.original>> >>,
     <<"conclusion", <<"Let's write a very short conclusion chapter for this guide.">> >> >>

\* __main__: the OrderedDict of chapter prompts, in insertion order
ChapterPrompts(source, snippet) ==
  << <<"chapter_1", <<"Title: Traditional Methods for Creating", source.original>> >>,
     <<"chapter_2", <<"Title: Implementing a Python Data Pipeline for", source.original>>
                    \o snippet >>,
     <<"chapter_3", <<"Title: Why Using PyAirbyte for", source.original>> >>,
     <<"conclusion", <<"Let's write a very short conclusion chapter for this guide.">> >>,
     <<"introduction", <<"Let's write a very short introduction">> >> >>

\* variant of ChatMessages: the prompt is placed before the history
ChatMessages_PromptBeforeHistory(prompt, chat_history) ==
  <<Message("system", ChapterSystem), Message("user", prompt)>> \o chat_history

\* generate_blog_chapter: the messages of the request
ChatMessages(prompt, chat_history) ==
  <<Message("system", ChapterSystem)>> \o chat_history \o <<Message("user", prompt)>>

ctas == [docs_quickstarts_cta |-> <<"docs_quickstarts_cta">>,
         slack_newsletter_cta |-> <<"slack_newsletter_cta">>]

NL == <<"\n\n">>

RequiredChapters == {"introduction", "chapter_1", "chapter_2", "chapter_3", "conclusion"}

\* variant of AssemblePost: the chapters in the order they were generated
AssemblePost_GenerationOrder(chapters, c) ==
  chapters["chapter_1"]
    \o NL \o chapters["chapter_2"]
    \o NL \o c.docs_quickstarts_cta
    \o NL \o chapters["chapter_3"]
    \o NL \o chapters["conclusion"]
    \o NL \o chapters["introduction"]
    \o NL \o c.slack_newsletter_cta

\* build_blog_post: the concatenation of lines 62-68
AssemblePost(chapters, c) ==
  chapters["introduction"]
    \o NL \o chapters["chapter_1"]
    \o NL \o chapters["chapter_2"]
    \o NL \o c.docs_quickstarts_cta
    \o NL \o chapters["chapter_3"]
    \o NL \o chapters["conclusion"]
    \o NL \o c.slack_newsletter_cta

\* download_post: the path of the file
Filename(source) == <<"./blogs/", source.formatted, ".md">>

Line(kind, source, status, text) ==
  [kind |-> kind, source |-> source, status |-> status, text |-> text]

\* variant of IsSuccess: every 2xx status is taken as success
IsSuccess_Any2xx(status_code) == status_code \in 200..299

\* upload_post_to_webflow: the status codes taken as success
IsSuccess(status_code) == status_code \in {200, 201, 202}

\* upload_post_to_webflow: the line printed for a response
UploadReport(source, resp) ==
  IF IsSuccess(resp.status_code)
  THEN Line("uploaded", source.original, 0, "")
  ELSE Line("failed", source.original, resp.status_code, resp.text)

Call(op, n) == [op |-> op, source |-> n]

\* variant of StepAfter: the upload comes before the local write
StepAfter_UploadFirst(step) ==
  CASE step = "build"    -> "upload"
    [] step = "upload"   -> "download"
    [] step = "download" -> "next"

\* __main__: the statement that follows each statement of the loop body
StepAfter(step) ==
  CASE step = "build"    -> "download"
    [] step = "download" -> "upload"
    [] step = "upload"   -> "next"

----------------------------------------------------------------------------
(* The script *)

\* the secrets read with os.getenv
Secrets == {"OPENAI_KEY", "WEBFLOW_API_TOKEN"}

\* process start: env is the environment of the process, before load_dotenv
Init ==
  /\ env \in [Secrets -> BOOLEAN]
  /\ pc = "start"
  /\ i = 1
  /\ k = 0
  /\ config = <<>>
  /\ chapter_prompts = <<>>
  /\ conversation_history = <<>>
  /\ blog_chapters = <<>>
  /\ blog_post = <<>>
  /\ lastRequest = <<>>
  /\ response = [status_code |-> 0, text |-> ""]
  /\ files = {}
  /\ stdout = <<>>
  /\ trace = <<>>

\* the secrets a .env file may define
DotenvFiles == [Secrets -> BOOLEAN]

\* line 125: load_dotenv adds to the environment the secrets the .env file
\* defines; a secret the environment already holds is kept
LoadDotenv(environ, dotenv) == [v \in Secrets |-> environ[v] \/ dotenv[v]]

\* lines 125-134: load_dotenv, the client, the calls to action
Startup ==
  /\ pc = "start"
  /\ \E dotenv \in DotenvFiles : env' = LoadDotenv(env, dotenv)
  /\ pc' = IF NumSources = 0 THEN "done" ELSE "prompts"
  /\ UNCHANGED <<i, k, config, chapter_prompts, conversation_history,
                 blog_chapters, blog_post, lastRequest, response, files, stdout, trace>>

\* line 128 with OPENAI_KEY absent after load_dotenv: api_key is None, and the
\* client library may refuse to construct a client without a key
StartupClientError ==
  /\ pc = "start"
  /\ \E dotenv \in DotenvFiles :
       /\ env' = LoadDotenv(env, dotenv)
       /\ ~env'["OPENAI_KEY"]
  /\ pc' = "crashed"
  /\ UNCHANGED <<i, k, config, chapter_prompts, conversation_history,
                 blog_chapters, blog_post, lastRequest, response, files, stdout, trace>>

\* variant of BuildPrompts: lines 148 and 151 are missing, so the history and
\* the chapter map of the previous connector are kept
BuildPrompts_KeepsHistory ==
  /\ pc = "prompts"
  /\ \E content \in SnippetResponses :
       /\ config' = StripFences(content)
       /\ chapter_prompts' =
            ChapterPrompts(sources[i], Snippet(sources[i].formatted, config'))
  /\ lastRequest' = SnippetMessages(sources[i].formatted)
  /\ k' = 0
  /\ trace' = trace \o <<Call("get_source", i), Call("chat_snippet", i)>>
  /\ pc' = "chapter"
  /\ UNCHANGED <<env, i, conversation_history, blog_chapters, blog_post,
                 response, files, stdout>>

\* lines 136-151: the prompts (with the call of create_code_example), then the
\* fresh history and chapter map
BuildPrompts ==
  /\ pc = "prompts"
  /\ \E content \in SnippetResponses :
       /\ config' = StripFences(content)
       /\ chapter_prompts' =
            ChapterPrompts(sources[i], Snippet(sources[i].formatted, config'))
  /\ lastRequest' = SnippetMessages(sources[i].formatted)
  /\ conversation_history' = <<>>
  /\ blog_chapters' = <<>>
  /\ k' = 0
  /\ trace' = trace \o <<Call("get_source", i), Call("chat_snippet", i)>>
  /\ pc' = "chapter"
  /\ UNCHANGED <<env, i, blog_post, response, files, stdout>>

\* line 11: ab.get_source raises
ConnectorError ==
  /\ pc = "prompts"
  /\ trace' = Append(trace, Call("get_source", i))
  /\ pc' = "crashed"
  /\ UNCHANGED <<env, i, k, config, chapter_prompts, conversation_history,
                 blog_chapters, blog_post, lastRequest, response, files, stdout>>

\* line 13: the model call of create_code_example raises
SnippetModelError ==
  /\ pc = "prompts"
  /\ lastRequest' = SnippetMessages(sources[i].formatted)
  /\ trace' = trace \o <<Call("get_source", i), Call("chat_snippet", i)>>
  /\ pc' = "crashed"
  /\ UNCHANGED <<env, i, k, config, chapter_prompts, conversation_history,
                 blog_chapters, blog_post, response, files, stdout>>

\* variant of GenerateChapter: the prompt is recorded in the history as a user
\* turn, before the assistant turn
GenerateChapter_RecordsPrompt ==
  /\ pc = "chapter"
  /\ k < Len(chapter_prompts)
  /\ LET chapter == chapter_prompts[k + 1][1]
         prompt  == chapter_prompts[k + 1][2]
     IN /\ lastRequest' = ChatMessages(prompt, conversation_history)
        /\ \E text \in Texts :
             blog_chapters' = (chapter :> text) @@ blog_chapters
        /\ conversation_history' =
             conversation_history
               \o <<Message("user", prompt), Message("assistant", blog_chapters'[chapter])>>
  /\ k' = k + 1
  /\ trace' = Append(trace, Call("chat_chapter", i))
  /\ UNCHANGED <<env, pc, i, config, chapter_prompts, blog_post, response, files, stdout>>

\* lines 58-60: one iteration of the loop of build_blog_post
GenerateChapter ==
  /\ pc = "chapter"
  /\ k < Len(chapter_prompts)
  /\ LET chapter == chapter_prompts[k + 1][1]
         prompt  == chapter_prompts[k + 1][2]
     IN /\ lastRequest' = ChatMessages(prompt, conversation_history)
        /\ \E text \in Texts :
             blog_chapters' = (chapter :> text) @@ blog_chapters
        /\ conversation_history' =
             Append(conversation_history, Message("assistant", blog_chapters'[chapter]))
  /\ k' = k + 1
  /\ trace' = Append(trace, Call("chat_chapter", i))
  /\ UNCHANGED <<env, pc, i, config, chapter_prompts, blog_post, response, files, stdout>>

\* line 50: the model call of generate_blog_chapter raises
GenerateChapterError ==
  /\ pc = "chapter"
  /\ k < Len(chapter_prompts)
  /\ lastRequest' = ChatMessages(chapter_prompts[k + 1][2], conversation_history)
  /\ trace' = Append(trace, Call("chat_chapter", i))
  /\ pc' = "crashed"
  /\ UNCHANGED <<env, i, k, config, chapter_prompts, conversation_history,
                 blog_chapters, blog_post, response, files, stdout>>

\* lines 62-70: the concatenation; a missing key raises KeyError
Assemble ==
  /\ pc = "chapter"
  /\ k = Len(chapter_prompts)
  /\ trace' = Append(trace, Call("assemble", i))
  /\ IF RequiredChapters \subseteq DOMAIN blog_chapters
     THEN /\ blog_post' = AssemblePost(blog_chapters, ctas)
          /\ pc' = StepAfter("build")
     ELSE /\ blog_post' = blog_post
          /\ pc' = "crashed"
  /\ UNCHANGED <<env, i, k, config, chapter_prompts, conversation_history,
                 blog_chapters, lastRequest, response, files, stdout>>

\* the statement after step: the next statement of the body, or the next
\* connector
Advance(step) ==
  LET n == StepAfter(step)
  IN IF n = "next"
     THEN IF i = NumSources
          THEN pc' = "done" /\ i' = i
          ELSE pc' = "prompts" /\ i' = i + 1
     ELSE pc' = n /\ i' = i

\* lines 112-120: the file is opened for writing and the post written
DownloadPost ==
  /\ pc = "download"
  /\ files' = files \cup {Filename(sources[i])}
  /\ stdout' = Append(stdout, Line("saved", sources[i].formatted, 0, ""))
  /\ trace' = Append(trace, Call("open", i))
  /\ Advance("download")
  /\ UNCHANGED <<env, k, config, chapter_prompts, conversation_history,
                 blog_chapters, blog_post, lastRequest, response>>

\* line 117: open raises, no file is created
DownloadOpenError ==
  /\ pc = "download"
  /\ trace' = Append(trace, Call("open", i))
  /\ pc' = "crashed"
  /\ UNCHANGED <<env, i, k, config, chapter_prompts, conversation_history,
                 blog_chapters, blog_post, lastRequest, response, files, stdout>>

\* line 118: open has created or truncated the file, then the write raises
DownloadWriteError ==
  /\ pc = "download"
  /\ files' = files \cup {Filename(sources[i])}
  /\ trace' = Append(trace, Call("open", i))
  /\ pc' = "crashed"
  /\ UNCHANGED <<env, i, k, config, chapter_prompts, conversation_history,
                 blog_chapters, blog_post, lastRequest, response, stdout>>

\* lines 72-110: the POST and the report of its status
Upload ==
  /\ pc = "upload"
  /\ \E status \in StatusCodes, text \in Bodies :
       response' = [status_code |-> status, text |-> text]
  /\ stdout' = Append(stdout, UploadReport(sources[i], response'))
  /\ trace' = Append(trace, Call("post", i))
  /\ Advance("upload")
  /\ UNCHANGED <<env, k, config, chapter_prompts, conversation_history,
                 blog_chapters, blog_post, lastRequest, files>>

\* line 104: requests.post raises
UploadError ==
  /\ pc = "upload"
  /\ trace' = Append(trace, Call("post", i))
  /\ pc' = "crashed"
  /\ UNCHANGED <<env, i, k, config, chapter_prompts, conversation_history,
                 blog_chapters, blog_post, lastRequest, response, files, stdout>>

Next ==
  \/ Startup
  \/ StartupClientError
  \/ BuildPrompts
  \/ ConnectorError
  \/ SnippetModelError
  \/ GenerateChapter
  \/ GenerateChapterError
  \/ Assemble
  \/ DownloadPost
  \/ DownloadOpenError
  \/ DownloadWriteError
  \/ Upload
  \/ UploadError

Spec == Init /\ [][Next]_vars

----------------------------------------------------------------------------
(* The stripping of create_code_example on its own: line 17 applied to      *)
(* every response built from up to MaxPieces pieces                         *)

InitStrip ==
  /\ env = [v \in Secrets |-> TRUE]
  /\ pc = "response"
  /\ i = 1
  /\ k = 0
  /\ config \in RawResponses
  /\ chapter_prompts = <<>>
  /\ conversation_history = <<>>
  /\ blog_chapters = <<>>
  /\ blog_post = <<>>
  /\ lastRequest = SnippetMessages(sources[1].formatted)
  /\ response = [status_code |-> 0, text |-> ""]
  /\ files = {}
  /\ stdout = <<>>
  /\ trace = <<Call("get_source", 1), Call("chat_snippet", 1)>>

\* line 17
StripConfig ==
  /\ pc = "response"
  /\ config' = StripFences(config)
  /\ pc' = "stripped"
  /\ UNCHANGED <<env, i, k, chapter_prompts, conversation_history, blog_chapters,
                 blog_post, lastRequest, response, files, stdout, trace>>

NextStrip == StripConfig

SpecStrip == InitStrip /\ [][NextStrip]_vars

----------------------------------------------------------------------------
(* Properties *)

\* the order in which the chapters are to be generated
ChapterOrder == <<"chapter_1", "chapter_2", "chapter_3", "conclusion", "introduction">>

\* the opening of each chapter's prompt
TitleOf ==
  [chapter_1    |-> "Title: Traditional Methods for Creating",
   chapter_2    |-> "Title: Implementing a Python Data Pipeline for",
   chapter_3    |-> "Title: Why Using PyAirbyte for",
   conclusion   |-> "Let's write a very short conclusion chapter for this guide.",
   introduction |-> "Let's write a very short introduction"]

\* the connector's history and chapter map exist and the connector is not finished
InBuild == pc \in {"chapter", "download", "upload"}

Terminated == pc \in {"done", "crashed"}

\* sub is a contiguous part of s
Contains(s, sub) ==
  \E p \in 1..(Len(s) - Len(sub) + 1) : SubSeq(s, p, p + Len(sub) - 1) = sub

Attempted(n) == \E m \in 1..Len(trace) : trace[m].source = n

CountCalls(op) == Cardinality({m \in 1..Len(trace) : trace[m].op = op})

UploadLines == Cardinality({m \in 1..Len(stdout) : stdout[m].kind \in {"uploaded", "failed"}})

\* C1: when the run has ended after work on some connector, every connector
\* of the catalog has been attempted: the failure of one connector does not
\* keep the others from being processed.
C1_FailuresIsolated ==
  (Terminated /\ trace # <<>>) => \A n \in 1..NumSources : Attempted(n)

\* C2: the k-th prompt issued for a connector is the prompt of the k-th
\* chapter of chapter_1, chapter_2, chapter_3, conclusion, introduction, and
\* the text returned for a chapter is in the history, as an assistant turn,
\* when the next prompt is issued.
C2_ChapterOrder ==
  (InBuild /\ k >= 1) =>
    LET last == lastRequest[Len(lastRequest)]
    IN /\ k <= Len(ChapterOrder)
       /\ last.role = "user"
       /\ Head(last.content) = TitleOf[ChapterOrder[k]]
       /\ DOMAIN blog_chapters = {ChapterOrder[j] : j \in 1..k}
       /\ Len(conversation_history) >= k
       /\ conversation_history[k] = Message("assistant", blog_chapters[ChapterOrder[k]])
       /\ k >= 2 =>
            \E m \in 1..(Len(lastRequest) - 1) :
              lastRequest[m] = Message("assistant", blog_chapters[ChapterOrder[k - 1]])

C2_Witness ==
  /\ pc = "upload"
  /\ k = 5
  /\ blog_chapters["conclusion"] # blog_chapters["introduction"]

\* C3 as stated: after N chapters the history holds N assistant turns, the
\* n-th with the text of the n-th chapter, and the user prompts that produced
\* them.
C3_HistoryHoldsUserPrompts ==
  InBuild =>
    LET assistant == SelectSeq(conversation_history, LAMBDA m : m.role = "assistant")
    IN /\ Len(assistant) = k
       /\ \A n \in 1..k : assistant[n].content = blog_chapters[chapter_prompts[n][1]]
       /\ \A n \in 1..k :
            \E m \in 1..Len(conversation_history) :
              conversation_history[m] = Message("user", chapter_prompts[n][2])

\* C3 amended: after N chapters the history holds exactly N entries, all of
\* them assistant turns, the n-th with the text of the n-th generated chapter;
\* no user prompt is recorded in it.
C3_HistoryAssistantOnly ==
  InBuild =>
    /\ Len(conversation_history) = k
    /\ \A n \in 1..k :
         conversation_history[n] =
           Message("assistant", blog_chapters[chapter_prompts[n][1]])
    /\ \A m \in 1..Len(conversation_history) : conversation_history[m].role # "user"

C3_Witness ==
  /\ pc = "chapter"
  /\ k = 3
  /\ Len(conversation_history) = 3
  /\ conversation_history[1].content # conversation_history[2].content

\* C4: the post is introduction, chapter_1, chapter_2, docs_quickstarts_cta,
\* chapter_3, conclusion, slack_newsletter_cta joined by blank lines, where
\* the introduction is the text generated fifth, chapter_1 the text generated
\* first, and so on; every chapter text is a contiguous part of the post.
C4_AssembledOrder ==
  pc \in {"download", "upload"} =>
    LET h == conversation_history
    IN /\ Len(h) = 5
       /\ blog_post = h[5].content
                        \o <<"\n\n">> \o h[1].content
                        \o <<"\n\n">> \o h[2].content
                        \o <<"\n\n">> \o <<"docs_quickstarts_cta">>
                        \o <<"\n\n">> \o h[3].content
                        \o <<"\n\n">> \o h[4].content
                        \o <<"\n\n">> \o <<"slack_newsletter_cta">>
       /\ \A n \in 1..5 : Contains(blog_post, h[n].content)

C4_Witness ==
  /\ pc = "download"
  /\ Len(conversation_history) = 5
  /\ conversation_history[5].content # conversation_history[1].content
  /\ Len(blog_post) > 0

\* C5: when the first chapter of a connector is about to be generated the
\* history and the chapter map are empty, and a request made for a connector
\* holds nothing but that connector's prompt and the texts generated for it.
C5_HistoryIsolated ==
  /\ (pc = "chapter" /\ k = 0) =>
       (conversation_history = <<>> /\ DOMAIN blog_chapters = {})
  /\ (InBuild /\ k >= 1) =>
       /\ Len(lastRequest) = k + 1
       /\ \A m \in 2..Len(lastRequest) :
            \/ /\ lastRequest[m].role = "user"
               /\ \E n \in 1..Len(chapter_prompts) :
                    /\ lastRequest[m].content = chapter_prompts[n][2]
                    /\ n \in {1, 2, 3} =>
                         lastRequest[m].content[2] = sources[i].original
            \/ /\ lastRequest[m].role = "assistant"
               /\ m - 1 <= Len(conversation_history)
               /\ lastRequest[m] = conversation_history[m - 1]
               /\ lastRequest[m].content = blog_chapters[chapter_prompts[m - 1][1]]

C5_Witness ==
  /\ i = 2
  /\ pc = "chapter"
  /\ k = 2
  /\ Len(lastRequest) = 3

\* C6: when the CMS has answered the latest POST, the line printed is the
\* success line exactly when the status is 200, 201 or 202, otherwise it is
\* the failure line with the status code and the response body; the script
\* has not stopped on an exception and has moved on to the next connector.
C6_UploadClassification ==
  (Len(trace) > 0 /\ trace[Len(trace)].op = "post" /\ UploadLines = CountCalls("post")) =>
    LET n    == trace[Len(trace)].source
        line == stdout[Len(stdout)]
    IN /\ line.kind = "uploaded" <=> response.status_code \in {200, 201, 202}
       /\ line.kind = "failed" <=> response.status_code \notin {200, 201, 202}
       /\ line.kind = "failed" =>
            /\ line.status = response.status_code
            /\ line.text = response.text
       /\ line.source = sources[n].original
       /\ pc # "crashed"
       /\ IF n = NumSources THEN pc = "done" ELSE pc = "prompts" /\ i = n + 1

C6_Witness ==
  /\ Len(trace) > 0
  /\ trace[Len(trace)] = Call("post", 1)
  /\ response.status_code = 401
  /\ stdout[Len(stdout)].kind = "failed"
  /\ pc = "prompts"
  /\ i = 2

\* C7: with OPENAI_KEY or WEBFLOW_API_TOKEN absent from the environment (once
\* load_dotenv has run), no model request, no file write and no HTTP POST is
\* ever made.
C7_FailFast ==
  (~env["OPENAI_KEY"] \/ ~env["WEBFLOW_API_TOKEN"]) =>
    \A m \in 1..Len(trace) :
      trace[m].op \notin {"chat_snippet", "chat_chapter", "open", "post"}

\* C8: the configuration text left by the stripping contains neither the
\* three backquotes nor the word json.
C8_StrippedClean ==
  pc = "stripped" => (~Contains(config, FENCE) /\ ~Contains(config, JSON))

\* the external calls of one connector, in order
CallsOf(n) ==
  <<Call("get_source", n), Call("chat_snippet", n)>>
    \o [j \in 1..5 |-> Call("chat_chapter", n)]
    \o <<Call("assemble", n), Call("open", n), Call("post", n)>>

RECURSIVE CallsUpTo(_)
CallsUpTo(n) == IF n = 0 THEN <<>> ELSE CallsUpTo(n - 1) \o CallsOf(n)

\* C9: the calls made so far are a prefix of: for each connector in catalog
\* order, the snippet request, the five chapter requests, the assembly, the
\* file write, the upload; and the file of a connector whose upload has been
\* attempted exists, whatever the CMS answered.
C9_StepOrder ==
  /\ Len(trace) <= Len(CallsUpTo(NumSources))
  /\ trace = SubSeq(CallsUpTo(NumSources), 1, Len(trace))
  /\ \A m \in 1..Len(trace) :
       trace[m].op = "post" => Filename(sources[trace[m].source]) \in files

C9_Witness ==
  /\ pc = "done"
  /\ ~IsSuccess(response.status_code)
  /\ Len(trace) = Len(CallsUpTo(NumSources))
  /\ Filename(sources[NumSources]) \in files

\* C10: the request for the k-th chapter is the system message, the texts of
\* the k-1 chapters generated before as assistant turns in generation order,
\* and the prompt of the chapter as the only user turn, in last place; the
\* history handed to generate_blog_chapter is left as it was.
C10_RequestShape ==
  (InBuild /\ k >= 1) =>
    /\ lastRequest =
         <<Message("system", ChapterSystem)>>
           \o [j \in 1..(k - 1) |-> Message("assistant", blog_chapters[ChapterOrder[j]])]
           \o <<Message("user", chapter_prompts[k][2])>>
    /\ \A m \in 1..(Len(lastRequest) - 1) : lastRequest[m].role # "user"
    /\ Len(conversation_history) = k
    /\ SubSeq(conversation_history, 1, k - 1) = SubSeq(lastRequest, 2, k)

C10_Witness ==
  /\ pc = "chapter"
  /\ k = 4
  /\ Len(lastRequest) = 5
  /\ lastRequest[2].content # lastRequest[3].content

====
